---- MODULE Spec2Model ----
(***************************************************************************)
(* A model of conf2md: export_confluence.py (export of a Confluence page   *)
(* tree over the REST API) and export_html_to_md.py (conversion of a       *)
(* Confluence HTML export).                                                *)
(*                                                                         *)
(* Strings are TLA+ strings; a string that the code inspects character by  *)
(* character (a title) is a sequence of one-character strings.  A path is  *)
(* a sequence of path components; an absolute path starts at the root "/". *)
(***************************************************************************)
EXTENDS Integers, Sequences, FiniteSets, TLC

VARIABLES
    source,         \* the Confluence server: page id -> title, children, body, attachments
    pc,             \* position of main() of export_confluence.py
    root,           \* the PageNode tree returned by build_tree
    nodes,          \* the list filled by collect_nodes
    page_id_to_md,  \* the id -> path index
    cur,            \* index into nodes of the node the export loop is at
    step,           \* position inside export_page / download_attachments
    start,          \* download_attachments: offset of the next listing request
    results,        \* download_attachments: items of the current page not yet processed
    written,        \* download_attachments: chunks of the open attachment written so far
    fs,             \* the output directory: path -> content
    log,            \* the listing requests sent so far
    calls,          \* (index at the time, current path) of every rewrite_links call so far
    runs,           \* how many times main() has been started
    order,          \* the order in which export_page is applied to the nodes
    rw              \* the link rewriters' harness: inputs and results

vars == <<source, pc, root, nodes, page_id_to_md, cur, step, start, results,
          written, fs, log, calls, runs, order, rw>>

(***************************************************************************)
(* Bounds of the model.                                                    *)
(***************************************************************************)
MaxNodes == 3

\* the largest child listing and the largest attachment listing of the
\* pagination sources
MaxChildren == 101
MaxAttachments == 201

\* the largest number of a and img tags of a document given to rewrite_links
MaxTags == 2

\* how many times main() is started (a failed run may be run again)
MaxRuns == 2

(***************************************************************************)
(* Strings and paths.                                                      *)
(***************************************************************************)
RECURSIVE Join(_, _)
\* sep.join(parts)
Join(parts, sep) ==
    IF parts = <<>> THEN ""
    ELSE IF Len(parts) = 1 THEN parts[1]
    ELSE parts[1] \o sep \o Join(Tail(parts), sep)

RECURSIVE SeqToSet(_)
SeqToSet(s) == IF s = <<>> THEN {} ELSE {Head(s)} \cup SeqToSet(Tail(s))

RECURSIVE Flatten(_)
\* the concatenation of a sequence of sequences
Flatten(ss) ==
    IF ss = <<>> THEN <<>>
    ELSE IF Len(ss) = 1 THEN ss[1]
    ELSE LET half == Len(ss) \div 2
         IN  Flatten(SubSeq(ss, 1, half)) \o Flatten(SubSeq(ss, half + 1, Len(ss)))

Min(a, b) == IF a < b THEN a ELSE b

\* Path.parent
Parent(p) == SubSeq(p, 1, Len(p) - 1)

\* Path.name
Name(p) == p[Len(p)]

RECURSIVE Normalize(_, _)
\* os.path.normpath of an absolute path: "." and "" components dropped, ".."
\* removes the component before it (and is dropped at the root).
Normalize(p, acc) ==
    IF p = <<>> THEN acc
    ELSE IF Head(p) \in {".", ""} THEN Normalize(Tail(p), acc)
    ELSE IF Head(p) = ".."
         THEN Normalize(Tail(p), IF acc = <<>> THEN acc ELSE Parent(acc))
    ELSE Normalize(Tail(p), Append(acc, Head(p)))

RECURSIVE CommonLen(_, _)
\* length of the longest common prefix of two paths
CommonLen(p, q) ==
    IF p = <<>> \/ q = <<>> \/ Head(p) # Head(q) THEN 0
    ELSE 1 + CommonLen(Tail(p), Tail(q))

\* os.path.relpath(target, start_dir) for absolute paths, as a list of components
RelParts(target, start_dir) ==
    LET t == Normalize(target, <<>>)
        s == Normalize(start_dir, <<>>)
        i == CommonLen(t, s)
        ups == [k \in 1..(Len(s) - i) |-> ".."]
        rel == ups \o SubSeq(t, i + 1, Len(t))
    IN  IF rel = <<>> THEN <<".">> ELSE rel

\* os.path.relpath(target, start_dir).replace("\\", "/")
relpath(target, start_dir) == Join(RelParts(target, start_dir), "/")

(***************************************************************************)
(* slugify (export_confluence.py)                                          *)
(***************************************************************************)
UpperLatin == <<"A", "B", "C", "D", "E", "F", "G", "H", "I", "J", "K", "L", "M",
                "N", "O", "P", "Q", "R", "S", "T", "U", "V", "W", "X", "Y", "Z">>
LowerLatin == <<"a", "b", "c", "d", "e", "f", "g", "h", "i", "j", "k", "l", "m",
                "n", "o", "p", "q", "r", "s", "t", "u", "v", "w", "x", "y", "z">>
Digits == {"0", "1", "2", "3", "4", "5", "6", "7", "8", "9"}
Whitespace == {" ", "\t", "\n"}

\* str.lower() of one character
ToLower(c) ==
    IF \E i \in 1..Len(UpperLatin) : UpperLatin[i] = c
    THEN LowerLatin[CHOOSE i \in 1..Len(UpperLatin) : UpperLatin[i] = c]
    ELSE c

\* the allow-list [a-z0-9\-_ ] under re.IGNORECASE (the Cyrillic range of the
\* source is left out: the titles of the model are ASCII)
Allowed(c) ==
    c \in SeqToSet(LowerLatin) \cup SeqToSet(UpperLatin) \cup Digits \cup {"-", "_", " "}

RECURSIVE LStrip(_)
LStrip(s) == IF s # <<>> /\ Head(s) \in Whitespace THEN LStrip(Tail(s)) ELSE s

RECURSIVE RStrip(_)
RStrip(s) == IF s # <<>> /\ s[Len(s)] \in Whitespace THEN RStrip(Parent(s)) ELSE s

RECURSIVE Filter(_)
\* re.sub(r"[^a-z0-9...\-_ ]+", "", text, flags=re.IGNORECASE)
Filter(s) ==
    IF s = <<>> THEN <<>>
    ELSE IF Allowed(Head(s)) THEN <<Head(s)>> \o Filter(Tail(s))
    ELSE Filter(Tail(s))

RECURSIVE LStripOf(_, _)
LStripOf(s, cls) == IF s # <<>> /\ Head(s) \in cls THEN LStripOf(Tail(s), cls) ELSE s

RECURSIVE CollapseRuns(_, _, _)
\* re.sub of every maximal run of characters of `cls` by one `by`
CollapseRuns(s, cls, by) ==
    IF s = <<>> THEN <<>>
    ELSE IF Head(s) \in cls
         THEN <<by>> \o CollapseRuns(LStripOf(Tail(s), cls), cls, by)
    ELSE <<Head(s)>> \o CollapseRuns(Tail(s), cls, by)

\* slugify(text), text a sequence of characters, the slug a string
slugify(text) ==
    LET stripped == RStrip(LStrip(text))
        lowered  == [i \in 1..Len(stripped) |-> ToLower(stripped[i])]
        kept     == Filter(lowered)
        hyphened == CollapseRuns(kept, Whitespace, "-")
        single   == CollapseRuns(hyphened, {"-"}, "-")
        slug     == Join(single, "")
    IN  IF slug = "" THEN "page" ELSE slug

(***************************************************************************)
(* The Confluence server, as the atlassian client shows it.                *)
(* source.page_id is the --page-id argument; source.pages maps a page id   *)
(* to [title, children (the child listing, in order), body, attachments].  *)
(***************************************************************************)
\* confluence.get_page_child_by_type / get_page_attachments: the items of a
\* listing from offset `from`, at most `limit` of them
Listing(items, from, limit) == SubSeq(items, from + 1, Min(from + limit, Len(items)))

\* limit = 50 of build_tree
ChildLimit == 50

\* limit = 100 of download_attachments
AttachmentLimit == 100

\* a loop that stops at the first empty page instead
ExhaustedWhenEmpty(res, limit) == Len(res) = 0

\* if len(results) < limit: break
Exhausted(res, limit) == Len(res) < limit

\* PageNode.path before assign_paths (None)
NoPath == <<>>

\* PageNode(page_id=..., title=...)
PageNode(page_id, title) ==
    [page_id |-> page_id, title |-> title, children |-> <<>>, path |-> NoPath]

RECURSIVE build_tree(_, _)
RECURSIVE ChildLoop(_, _, _, _)

\* the while True loop of build_tree, from offset `from`; acc = [node, log] is
\* the node so far and the listing requests sent so far
\*   for child in results: node.children.append(build_tree(confluence, child["id"]))
ChildLoop(pages, page_id, from, acc) ==
    LET res  == Listing(pages[page_id].children, from, ChildLimit)
        req  == [kind |-> "children", page_id |-> page_id, start |-> from,
                 limit |-> ChildLimit, returned |-> Len(res)]
        subs == [i \in DOMAIN res |-> build_tree(pages, res[i])]
        next == [node |-> [acc.node EXCEPT
                            !.children = @ \o [i \in DOMAIN res |-> subs[i].node]],
                 log  |-> Append(acc.log, req) \o Flatten([i \in DOMAIN res |-> subs[i].log])]
    IN  IF Exhausted(res, ChildLimit) THEN next
        ELSE ChildLoop(pages, page_id, from + ChildLimit, next)

\* build_tree(confluence, page_id): the node, and the listing requests it sent
build_tree(pages, page_id) ==
    ChildLoop(pages, page_id, 0,
              [node |-> PageNode(page_id, pages[page_id].title), log |-> <<>>])

\* a directory name without the id
DirNameOfSlug(node) == slugify(node.title)

\* safe = f"{slugify(node.title)}__{node.page_id}"
DirName(node) == slugify(node.title) \o "__" \o node.page_id

RECURSIVE assign_paths(_, _, _)
\* assign_paths(node, parent_dir, index_name): the node with every path set
assign_paths(node, parent_dir, index_name) ==
    LET node_dir == Append(parent_dir, DirName(node))
    IN  [node EXCEPT
            !.path = Append(node_dir, index_name),
            !.children = [i \in DOMAIN node.children |->
                            assign_paths(node.children[i], node_dir, index_name)]]

RECURSIVE collect_nodes(_)
\* collect_nodes(node, out): what it appends to out, the node and then, for
\* each child in turn, what collect_nodes(child, out) appends
collect_nodes(node) ==
    <<node>> \o Flatten([i \in DOMAIN node.children |-> collect_nodes(node.children[i])])

\* an index of the first node of the list alone
BuildIndexOfFirst(ns) == [id \in {ns[1].page_id} |-> ns[1].path]

\* page_id_to_md = {n.page_id: n.path for n in nodes if n.path is not None}
\* (a later entry with the same key replaces an earlier one)
BuildIndex(ns) ==
    LET kept == {i \in DOMAIN ns : ns[i].path # NoPath}
        ids  == {ns[i].page_id : i \in kept}
        last(id) == CHOOSE i \in kept :
                        /\ ns[i].page_id = id
                        /\ \A j \in kept : ns[j].page_id = id => j <= i
    IN  [id \in ids |-> ns[last(id)].path]

\* Path(args.out).resolve()
OutDir == <<"root">>

\* args.index_name
IndexName == "index.md"

(***************************************************************************)
(* URLs.  A link attribute is the text of a URL; the model keeps the URL   *)
(* in the parts the regular expressions and urlparse see:                  *)
(*   scheme://netloc  /path/segments  ?key=value&key=value  #frag          *)
(* rooted: the path starts with "/"; query: a sequence of <<key, value>>,  *)
(* a value a sequence of characters; frag: <<>> (none) or <<text>>.        *)
(* The URLs of the model have no "?", "&" or "#" inside a part and no      *)
(* percent escapes.                                                        *)
(***************************************************************************)
Url(scheme, netloc, rooted, path, query, frag) ==
    [scheme |-> scheme, netloc |-> netloc, rooted |-> rooted, path |-> path,
     query |-> query, frag |-> frag]

\* the "#..." suffix of the text
FragText(u) == IF u.frag = <<>> THEN "" ELSE "#" \o u.frag[1]

QueryText(u) ==
    IF u.query = <<>> THEN ""
    ELSE "?" \o Join([i \in DOMAIN u.query |->
                        u.query[i][1] \o "=" \o Join(u.query[i][2], "")], "&")

PathText(u) == (IF u.rooted THEN "/" ELSE "") \o Join(u.path, "/")

PrefixText(u) ==
    IF u.scheme = "mailto" THEN "mailto:"
    ELSE IF u.scheme # "" THEN u.scheme \o "://" \o u.netloc
    ELSE IF u.netloc # "" THEN "//" \o u.netloc
    ELSE ""

\* the attribute value: the URL as text
Text(u) == PrefixText(u) \o PathText(u) \o QueryText(u) \o FragText(u)

RECURSIVE LeadingDigits(_)
\* the longest prefix of digits of a sequence of characters
LeadingDigits(v) ==
    IF v # <<>> /\ Head(v) \in Digits THEN <<Head(v)>> \o LeadingDigits(Tail(v))
    ELSE <<>>

\* the strings of one to three digits
Numerals == {Join(d, "") : d \in UNION {[1..n -> Digits] : n \in 1..3}}

\* re.search(r"[?&]pageId=(\d+)", url): the index of the first query item
\* that matches, 0 when none does
PageIdItem(u) ==
    LET hits == {i \in DOMAIN u.query :
                    u.query[i][1] = "pageId" /\ LeadingDigits(u.query[i][2]) # <<>>}
    IN  IF hits = {} THEN 0 ELSE CHOOSE i \in hits : \A j \in hits : i <= j

\* match.group(1)
PageIdGroup(u) == Join(LeadingDigits(u.query[PageIdItem(u)][2]), "")

\* re.search(r"/download/attachments/(\d+)/([^?]+)", url): the index in the
\* path of the first "download" that starts a match, 0 when there is none
AttachItem(u) ==
    LET hits == {i \in DOMAIN u.path :
                    /\ i > 1 \/ u.rooted
                    /\ i + 3 <= Len(u.path)
                    /\ u.path[i] = "download"
                    /\ u.path[i + 1] = "attachments"
                    /\ u.path[i + 2] \in Numerals}
    IN  IF hits = {} THEN 0 ELSE CHOOSE i \in hits : \A j \in hits : i <= j

\* attach_match.group(2), split at "/": everything after the id up to the
\* first "?", so the fragment too when the URL has no query
AttachFilename(u) ==
    LET rest == SubSeq(u.path, AttachItem(u) + 3, Len(u.path))
    IN  IF u.query = <<>>
        THEN [rest EXCEPT ![Len(rest)] = @ \o FragText(u)]
        ELSE rest

(***************************************************************************)
(* rewrite_links of export_confluence.py.  A document is the sequence of   *)
(* its a and img tags, [name |-> "a" or "img", url |-> the attribute];     *)
(* the result keeps for each tag the text of its attribute.                *)
(***************************************************************************)
\* a path relative to the page's file instead of its directory
RelativeToFile(target_path, current_md_path) == relpath(target_path, current_md_path)

\* replace_to_relative(target_path)
replace_to_relative(target_path, current_md_path) ==
    relpath(target_path, Parent(current_md_path))

\* one pass of the loop body: the text of the tag's attribute afterwards
ApiRewriteTag(tag, current_md_path, index, attachment_dir) ==
    LET u == tag.url
    IN  IF Text(u) = "" THEN Text(u)
        ELSE IF PageIdItem(u) # 0
             THEN IF PageIdGroup(u) \in DOMAIN index
                  THEN replace_to_relative(index[PageIdGroup(u)], current_md_path)
                  ELSE Text(u)
        ELSE IF AttachItem(u) # 0
             THEN replace_to_relative(attachment_dir \o AttachFilename(u), current_md_path)
        ELSE Text(u)

\* rewrite_links(html, current_md_path, page_id_to_md, attachment_dir)
ApiRewriteLinks(html, current_md_path, index, attachment_dir) ==
    [i \in DOMAIN html |->
        [name |-> html[i].name,
         attr |-> ApiRewriteTag(html[i], current_md_path, index, attachment_dir)]]

(***************************************************************************)
(* export_html_to_md.py.  A file of the input directory is                 *)
(* [dir, stem, suffix, page_id]: its path below input_dir is               *)
(* dir/stem+suffix, page_id is the content of its ajs-page-id marker       *)
(* ("" when it has none).                                                  *)
(***************************************************************************)
\* html_path.relative_to(input_dir), as components
RelOf(f) == Append(f.dir, f.stem \o f.suffix)

\* build_html_map(input_dir, output_dir): rel (posix text) -> target .md path
build_html_map(files, output_dir) ==
    LET htmls == {f \in files : f.suffix \in {".html", ".htm"}}
        rels  == {Join(RelOf(f), "/") : f \in htmls}
        of(r) == CHOOSE f \in htmls : Join(RelOf(f), "/") = r
    IN  [r \in rels |-> output_dir \o Append(of(r).dir, of(r).stem \o ".md")]

\* build_page_id_map(input_dir, html_map): page id -> target .md path, for
\* the files that carry a page id
build_page_id_map(files, html_map) ==
    LET htmls == {f \in files : Join(RelOf(f), "/") \in DOMAIN html_map /\ f.page_id # ""}
        ids   == {f.page_id : f \in htmls}
    IN  [id \in ids |->
            html_map[Join(RelOf(CHOOSE f \in htmls : f.page_id = id), "/")]]

\* a test for http and https alone
LooksHttp(u) == u.scheme \in {"http", "https"}

\* re.match(r"^(https?://|mailto:|#)", url)
LooksExternal(u) ==
    \/ u.scheme \in {"http", "https", "mailto"}
    \/ /\ u.scheme = "" /\ u.netloc = "" /\ u.path = <<>> /\ ~u.rooted
       /\ u.query = <<>> /\ u.frag # <<>>

\* qs.get("pageId", [None])[0]: parse_qs drops the items with a blank value;
\* "" stands for None
QueryPageId(u) ==
    LET hits == {i \in DOMAIN u.query :
                    u.query[i][1] = "pageId" /\ u.query[i][2] # <<>>}
    IN  IF hits = {} THEN ""
        ELSE Join(u.query[CHOOSE i \in hits : \A j \in hits : i <= j][2], "")

\* (current_html.parent / unquote(parsed.path)).resolve()
BasePath(u, current_html) ==
    IF u.rooted THEN Normalize(u.path, <<>>)
    ELSE Normalize(Parent(current_html) \o u.path, <<>>)

\* p is input_dir or below it (relative_to does not raise ValueError)
IsUnder(p, dir) == Len(p) >= Len(dir) /\ SubSeq(p, 1, Len(dir)) = dir

\* base_path.relative_to(input_dir).as_posix()
PosixRel(p, dir) ==
    IF Len(p) = Len(dir) THEN "." ELSE Join(SubSeq(p, Len(dir) + 1, Len(p)), "/")

\* one pass of the loop body: the text of the tag's attribute afterwards
HtmlRewriteTag(tag, html_map, page_id_map, current_html, current_md, input_dir) ==
    LET u         == tag.url
        frag      == FragText(u)
        base_path == BasePath(u, current_html)
        rel       == PosixRel(base_path, input_dir)
    IN  IF Text(u) = "" THEN Text(u)
        ELSE IF LooksExternal(u) THEN Text(u)
        ELSE IF u.query # <<>> /\ QueryPageId(u) # "" /\ QueryPageId(u) \in DOMAIN page_id_map
             THEN relpath(page_id_map[QueryPageId(u)], Parent(current_md)) \o frag
        ELSE IF u.scheme # "" \/ u.netloc # "" THEN Text(u)
        ELSE IF ~IsUnder(base_path, input_dir) THEN Text(u)
        ELSE IF rel \in DOMAIN html_map
             THEN relpath(html_map[rel], Parent(current_md)) \o frag
        ELSE relpath(base_path, Parent(current_md)) \o frag

\* rewrite_links(html, html_map, page_id_map, current_html, current_md, input_dir)
HtmlRewriteLinks(html, html_map, page_id_map, current_html, current_md, input_dir) ==
    [i \in DOMAIN html |->
        [name |-> html[i].name,
         attr |-> HtmlRewriteTag(html[i], html_map, page_id_map,
                                 current_html, current_md, input_dir)]]

(***************************************************************************)
(* export_page and download_attachments (export_confluence.py).            *)
(* The output directory fs maps a path to what is there:                   *)
(*   [kind |-> "dir"], [kind |-> "file", data |-> ...].                    *)
(* An attachment of the server is [title, download, chunks]: download is   *)
(* <<>> (no _links.download) or <<name>>, the last component of the        *)
(* download link; chunks is what iter_content yields.                      *)
(***************************************************************************)
Dir == [kind |-> "dir"]

File(data) == [kind |-> "file", data |-> data]

\* the function f with f[k] = v added or replaced
Put(f, k, v) == [x \in DOMAIN f \cup {k} |-> IF x = k THEN v ELSE f[x]]

RECURSIVE MkDirs(_, _)
\* dir.mkdir(parents=True, exist_ok=True)
MkDirs(files, dir) ==
    IF dir = <<>> THEN files
    ELSE LET up == MkDirs(files, Parent(dir))
         IN  IF dir \in DOMAIN up THEN up ELSE Put(up, dir, Dir)

\* page_dir = node.path.parent
PageDir(node) == Parent(node.path)

\* one attachment directory for the whole export
SharedAttachmentDir(node) == Append(OutDir, "attachments")

\* attachment_dir = page_dir / "attachments"
AttachmentDir(node) == Append(PageDir(node), "attachments")

\* filename = att.get("title") or Path(download).name
Filename(att) == IF att.title # "" THEN att.title ELSE att.download[1]

\* target = attachment_dir / filename
Target(node, att) == Append(AttachmentDir(node), Filename(att))

\* converter.handle(html).strip() + "\n": html2text keeps a link as [..](<url>)
\* (protect_links) and an image as ![..](url); the model keeps these markers
Convert(html) ==
    [i \in DOMAIN html |->
        IF html[i].name = "a" THEN "[a](<" \o html[i].attr \o ">)"
        ELSE "![](" \o html[i].attr \o ")"]

\* what export_page writes to node.path: "# title", a blank line, the document
PageFile(pages, node, index) ==
    File(<<"# " \o Join(node.title, ""), "">> \o
         Convert(ApiRewriteLinks(pages[node.page_id].body, node.path, index,
                                 AttachmentDir(node))))

\* what export_page writes to children.md
ChildrenFile(node, index) ==
    File(<<"# children">> \o
         [i \in DOMAIN node.children |->
            "- [" \o Join(node.children[i].title, "") \o "]("
                \o relpath(index[node.children[i].page_id], PageDir(node)) \o ")"]
         \o <<"">>)

\* lines 164-182 of export_page: rewrite, convert, write the page and the listing
WritePageFiles(files, pages, node, index) ==
    LET made == MkDirs(files, PageDir(node))
        page == Put(made, node.path, PageFile(pages, node, index))
    IN  IF node.children # <<>>
        THEN Put(page, Append(PageDir(node), "children.md"), ChildrenFile(node, index))
        ELSE page

RECURSIVE DownloadAll(_, _, _)
\* download_attachments when no request fails: every listed attachment in turn
DownloadAll(files, node, atts) ==
    IF atts = <<>> THEN files
    ELSE LET att == Head(atts)
         IN  IF att.download = <<>> \/ Target(node, att) \in DOMAIN files
             THEN DownloadAll(files, node, Tail(atts))
             ELSE DownloadAll(Put(files, Target(node, att), File(att.chunks)),
                              node, Tail(atts))

\* export_page(...) when no request fails: the output directory afterwards
export_page(files, pages, node, index) ==
    WritePageFiles(
        DownloadAll(MkDirs(files, AttachmentDir(node)), node, pages[node.page_id].attachments),
        pages, node, index)

RECURSIVE ExportAll(_, _, _, _)
\* for node in nodes: export_page(...)
ExportAll(files, pages, ns, index) ==
    IF ns = <<>> THEN files
    ELSE ExportAll(export_page(files, pages, Head(ns), index), pages, Tail(ns), index)

\* the output directory after one run of main() in which no request fails,
\* started on an empty output directory
CleanRun(src) ==
    LET tree == assign_paths(build_tree(src.pages, src.page_id).node, OutDir, IndexName)
        ns   == collect_nodes(tree)
    IN  ExportAll(<<>>, src.pages, ns, BuildIndex(ns))

(***************************************************************************)
(* The servers the model runs against.                                     *)
(***************************************************************************)
DigitOf == <<"0", "1", "2", "3", "4", "5", "6", "7", "8", "9">>

RECURSIVE ToStr(_)
\* str(n)
ToStr(n) == IF n < 10 THEN DigitOf[n + 1] ELSE ToStr(n \div 10) \o DigitOf[(n % 10) + 1]

\* the trees on pages 1..n: Shapes(n) is the set of parent functions, page 1
\* the root (parent 0), the parent of page k one of 1..k-1
Shapes(n) == {par \in [1..n -> 0..n] : par[1] = 0 /\ \A k \in 2..n : par[k] \in 1..(k - 1)}

\* the child listing of page k, in the server's order
ChildIds(par, k, ids) ==
    LET kids == SelectSeq([j \in DOMAIN par |-> j], LAMBDA j : par[j] = k)
    IN  [i \in DOMAIN kids |-> ids[kids[i]]]

Page(title, children, body, attachments) ==
    [title |-> title, children |-> children, body |-> body, attachments |-> attachments]

Attachment(title, download, chunks) ==
    [title |-> title, download |-> download, chunks |-> chunks]

Tag(name, url) == [name |-> name, url |-> url]

\* /pages/viewpage.action?pageId=<id>#frag
ViewPage(id, frag) ==
    Url("", "", TRUE, <<"pages", "viewpage.action">>, << <<"pageId", id>> >>, frag)

\* the titles of the pages of the small servers
SmallTitles == << <<"A">>, <<"a", "!">>, <<"!", "?">>, <<"A">> >>

\* the body of page k of a small server with n pages: a link to the next page
\* (page 1 after the last: a link forward in the export order or back), a link
\* to a page that is not in the tree, an image of an attachment, an external link
SmallBody(k, n) ==
    << Tag("a", ViewPage(<<DigitOf[(k % n) + 2]>>, <<>>)),
       Tag("a", ViewPage(<<"9", "9", "9">>, <<>>)),
       Tag("img", Url("", "", TRUE, <<"download", "attachments", ToStr(k), "f.png">>,
                      <<>>, <<>>)),
       Tag("a", Url("https", "example.com", TRUE, <<"x">>, <<>>, <<>>)) >>

\* the attachments of page k of a small server, in three variants
SmallAttachments(k, variant) ==
    IF variant = 1
    THEN IF k = 1 THEN <<Attachment("f.png", <<"f.png">>, <<"c1", "c2">>)>> ELSE <<>>
    ELSE IF variant = 2
    THEN <<Attachment("f.png", <<"f.png">>, <<"c" \o ToStr(k)>>)>>
    ELSE IF k = 1
         THEN << Attachment("g.png", <<>>, <<"g">>),
                 Attachment("f.png", <<"f.png">>, <<"c1", "c2">>),
                 Attachment("f.png", <<"f.png">>, <<"other">>),
                 Attachment("", <<"h.png">>, <<"h">>) >>
         ELSE <<>>

SmallServer(n, par, variant) ==
    LET ids == [k \in 1..n |-> ToStr(k)]
    IN  [page_id |-> "1",
         pages |-> [id \in {ids[k] : k \in 1..n} |->
                        LET k == CHOOSE j \in 1..n : ids[j] = id
                        IN  Page(SmallTitles[((k - 1) % Len(SmallTitles)) + 1],
                                 ChildIds(par, k, ids), SmallBody(k, n),
                                 SmallAttachments(k, variant))]]

SmallServers ==
    UNION {{SmallServer(n, par, variant) : par \in Shapes(n), variant \in 1..3} :
            n \in 1..MaxNodes}

\* a root page with n children that have no children
ManyChildren(n) ==
    [page_id |-> "1",
     pages |-> [id \in {ToStr(k) : k \in 1..(n + 1)} |->
                    Page(<<"p">>,
                         IF id = "1" THEN [i \in 1..n |-> ToStr(i + 1)] ELSE <<>>,
                         <<>>, <<>>)]]

\* a single page with n attachments; every tenth has no download link
ManyAttachments(n) ==
    [page_id |-> "1",
     pages |-> [id \in {"1"} |->
                    Page(<<"p">>, <<>>, <<>>,
                         [i \in 1..n |->
                            Attachment("f" \o ToStr(i),
                                       IF i % 10 = 3 THEN <<>> ELSE <<"f" \o ToStr(i)>>,
                                       <<"c">>)])]]

\* the titles of the servers of the path assignment: the same slug from
\* different titles, the fallback slug, whitespace and hyphen runs, a title
\* that holds the "__" of the directory names
PathTitles ==
    { <<"A">>, <<"a", "!">>, <<"!", "?">>,
      <<" ", "a", " ", " ", "-", "b", "_", "1", "\t">>, <<"a", "_", "_", "1">> }

\* the page ids of n pages: 1, 2, ..; n, n-1, ..; 1, 11, 111, ..
PathIds(n) ==
    { [k \in 1..n |-> ToStr(k)], [k \in 1..n |-> ToStr(n + 1 - k)],
      [k \in 1..n |-> Join([i \in 1..k |-> "1"], "")] }

\* a tree of n pages with the given parents, titles and ids, no content
PathServer(n, par, titles, ids) ==
    [page_id |-> ids[1],
     pages |-> [id \in {ids[k] : k \in 1..n} |->
                    LET k == CHOOSE j \in 1..n : ids[j] = id
                    IN  Page(titles[k], ChildIds(par, k, ids), <<>>, <<>>)]]

PathServers ==
    UNION {{PathServer(n, par, titles, ids) :
                par \in Shapes(n), titles \in [1..n -> PathTitles], ids \in PathIds(n)} :
            n \in 1..MaxNodes}

PagingServers ==
    {ManyChildren(n) : n \in 0..MaxChildren} \cup {ManyAttachments(n) : n \in 1..MaxAttachments}

(***************************************************************************)
(* main() of export_confluence.py                                          *)
(***************************************************************************)
NoNode == PageNode("", <<>>)
NoResults == [page |-> <<>>, i |-> 1]
NoCalls == [index |-> <<>>, pages |-> <<>>]
NoRw == [mode |-> "none"]

\* the state when main() starts on the server src and the output directory files
Started(src, files, run) ==
    /\ source = src
    /\ pc = "build_tree"
    /\ root = NoNode
    /\ nodes = <<>>
    /\ page_id_to_md = <<>>
    /\ cur = 0
    /\ step = "idle"
    /\ start = 0
    /\ results = NoResults
    /\ written = 0
    /\ fs = files
    /\ log = <<>>
    /\ calls = NoCalls
    /\ runs = run
    /\ order = <<>>
    /\ rw = NoRw

Init == \E src \in SmallServers : Started(src, <<>>, 1)

InitPaths == \E src \in PathServers : Started(src, <<>>, 1)

InitPaging == \E src \in PagingServers : Started(src, <<>>, 1)

\* the node export_page is working on
Node == nodes[cur]

\* root = build_tree(confluence, args.page_id)
BuildTree ==
    /\ pc = "build_tree"
    /\ LET built == build_tree(source.pages, source.page_id)
       IN  /\ root' = built.node
           /\ log' = log \o built.log
    /\ pc' = "assign_paths"
    /\ UNCHANGED <<source, nodes, page_id_to_md, cur, step, start, results, written,
                   fs, calls, runs, order, rw>>

\* assign_paths(root, out_dir, args.index_name)
AssignPaths ==
    /\ pc = "assign_paths"
    /\ root' = assign_paths(root, OutDir, IndexName)
    /\ pc' = "collect_nodes"
    /\ UNCHANGED <<source, nodes, page_id_to_md, cur, step, start, results, written,
                   fs, log, calls, runs, order, rw>>

\* nodes = []; collect_nodes(root, nodes)
CollectNodes ==
    /\ pc = "collect_nodes"
    /\ nodes' = collect_nodes(root)
    /\ pc' = "index"
    /\ UNCHANGED <<source, root, page_id_to_md, cur, step, start, results, written,
                   fs, log, calls, runs, order, rw>>

\* page_id_to_md = {...}
MakeIndex ==
    /\ pc = "index"
    /\ page_id_to_md' = BuildIndex(nodes)
    /\ pc' = "export"
    /\ UNCHANGED <<source, root, nodes, cur, step, start, results, written,
                   fs, log, calls, runs, order, rw>>

\* for node in nodes: the next node of the list, or the end of the loop
NextNode ==
    /\ pc = "export" /\ step = "idle"
    /\ IF Len(order) < Len(nodes)
       THEN /\ cur' = Len(order) + 1
            /\ order' = Append(order, Len(order) + 1)
            /\ step' = "get_page"
            /\ pc' = pc
       ELSE /\ pc' = "done"
            /\ UNCHANGED <<cur, order, step>>
    /\ UNCHANGED <<source, root, nodes, page_id_to_md, start, results, written,
                   fs, log, calls, runs, rw>>

\* export_page, lines 152-162: the page is fetched, download_attachments
\* starts: attachment_dir.mkdir(parents=True, exist_ok=True); start = 0
GetPage ==
    /\ pc = "export" /\ step = "get_page"
    /\ fs' = MkDirs(fs, AttachmentDir(Node))
    /\ start' = 0
    /\ step' = "list"
    /\ UNCHANGED <<source, pc, root, nodes, page_id_to_md, cur, results, written,
                   log, calls, runs, order, rw>>

\* data = confluence.get_page_attachments(page_id, start=start, limit=limit)
ListAttachments ==
    /\ pc = "export" /\ step = "list"
    /\ LET res == Listing(source.pages[Node.page_id].attachments, start, AttachmentLimit)
       IN  /\ results' = [page |-> res, i |-> 1]
           /\ log' = Append(log, [kind |-> "attachments", page_id |-> Node.page_id,
                                  start |-> start, limit |-> AttachmentLimit,
                                  returned |-> Len(res)])
    /\ step' = "item"
    /\ UNCHANGED <<source, pc, root, nodes, page_id_to_md, cur, start, written,
                   fs, calls, runs, order, rw>>

\* the attachment the for loop is at
Att == results.page[results.i]

Seen(att) == [kind |-> "item", page_id |-> Node.page_id, title |-> att.title]

\* if not download: continue        if target.exists(): continue
SkipAttachment ==
    /\ pc = "export" /\ step = "item"
    /\ results.i <= Len(results.page)
    /\ Att.download = <<>> \/ Target(Node, Att) \in DOMAIN fs
    /\ results' = [results EXCEPT !.i = @ + 1]
    /\ log' = Append(log, Seen(Att))
    /\ UNCHANGED <<source, pc, root, nodes, page_id_to_md, cur, step, start, written,
                   fs, calls, runs, order, rw>>

\* resp = session.get(...); resp.raise_for_status(); open(target, "wb")
OpenAttachment ==
    /\ pc = "export" /\ step = "item"
    /\ results.i <= Len(results.page)
    /\ Att.download # <<>> /\ Target(Node, Att) \notin DOMAIN fs
    /\ fs' = Put(fs, Target(Node, Att), File(<<>>))
    /\ written' = 0
    /\ log' = Append(log, Seen(Att))
    /\ step' = "stream"
    /\ UNCHANGED <<source, pc, root, nodes, page_id_to_md, cur, start, results,
                   calls, runs, order, rw>>

\* for chunk in resp.iter_content(...): f.write(chunk)
WriteChunk ==
    /\ pc = "export" /\ step = "stream"
    /\ written < Len(Att.chunks)
    /\ fs' = [fs EXCEPT ![Target(Node, Att)] = File(Append(@.data, Att.chunks[written + 1]))]
    /\ written' = written + 1
    /\ UNCHANGED <<source, pc, root, nodes, page_id_to_md, cur, step, start, results,
                   log, calls, runs, order, rw>>

\* the end of iter_content: the file is closed, the for loop goes on
CloseAttachment ==
    /\ pc = "export" /\ step = "stream"
    /\ written = Len(Att.chunks)
    /\ results' = [results EXCEPT !.i = @ + 1]
    /\ step' = "item"
    /\ UNCHANGED <<source, pc, root, nodes, page_id_to_md, cur, start, written,
                   fs, log, calls, runs, order, rw>>

\* the end of the for loop: if len(results) < limit: break, else start += limit
EndOfPage ==
    /\ pc = "export" /\ step = "item"
    /\ results.i > Len(results.page)
    /\ IF Exhausted(results.page, AttachmentLimit)
       THEN step' = "write" /\ start' = start
       ELSE step' = "list" /\ start' = start + AttachmentLimit
    /\ UNCHANGED <<source, pc, root, nodes, page_id_to_md, cur, results, written,
                   fs, log, calls, runs, order, rw>>

\* export_page, lines 164-182: rewrite_links is called with the index, the
\* page and the child listing are written
WritePage ==
    /\ pc = "export" /\ step = "write"
    /\ calls' = [index |-> IF calls.pages = <<>> THEN page_id_to_md ELSE calls.index,
                 pages |-> Append(calls.pages, Node.page_id)]
    /\ fs' = WritePageFiles(fs, source.pages, Node, page_id_to_md)
    /\ step' = "idle"
    /\ UNCHANGED <<source, pc, root, nodes, page_id_to_md, cur, start, results, written,
                   log, runs, order, rw>>

ExportPage ==
    \/ GetPage
    \/ ListAttachments
    \/ SkipAttachment
    \/ OpenAttachment
    \/ WriteChunk
    \/ CloseAttachment
    \/ EndOfPage
    \/ WritePage

Next ==
    \/ BuildTree
    \/ AssignPaths
    \/ CollectNodes
    \/ MakeIndex
    \/ NextNode
    \/ ExportPage

(***************************************************************************)
(* Properties of main(): the index and the pagination.                     *)
(***************************************************************************)
\* the nodes of the tree, whatever the list `nodes` holds
TreeNodes == collect_nodes(root)

\* id -> assigned path over the nodes ns
PathsOf(ns) ==
    [id \in {ns[i].page_id : i \in DOMAIN ns} |->
        ns[CHOOSE i \in DOMAIN ns : ns[i].page_id = id].path]

TreeIndex == PathsOf(TreeNodes)

\* the index holds every node of the tree with its assigned path
IndexTotal ==
    LET ns == TreeNodes
    IN  \A i \in DOMAIN ns :
            /\ ns[i].path # NoPath
            /\ ns[i].page_id \in DOMAIN page_id_to_md
            /\ page_id_to_md[ns[i].page_id] = ns[i].path

\* C1: once assign_paths has run (the page ids of a server are pairwise
\* distinct), every node's directory is named slugify(title) + "__" + id, any
\* two children of a node have different directory names, and no two nodes
\* of the tree have the same path.
C1_DirectoryNamesDistinct ==
    pc \notin {"build_tree", "assign_paths"} =>
        LET ns == TreeNodes
        IN  /\ \A i \in DOMAIN ns :
                  /\ Name(PageDir(ns[i])) = slugify(ns[i].title) \o "__" \o ns[i].page_id
                  /\ \A c, d \in DOMAIN ns[i].children :
                        c # d => Name(PageDir(ns[i].children[c]))
                                    # Name(PageDir(ns[i].children[d]))
            /\ \A i, j \in DOMAIN ns : i # j => ns[i].path # ns[j].path

\* C1 witness: paths are assigned and two children of the root have different
\* titles with the same slug
C1_Witness ==
    /\ pc = "collect_nodes"
    /\ \E c, d \in DOMAIN root.children :
          /\ c # d
          /\ root.children[c].title # root.children[d].title
          /\ slugify(root.children[c].title) = slugify(root.children[d].title)
          /\ root.children[c].path # root.children[d].path

\* C2: from the moment export_page is about to call rewrite_links for the
\* first time, the index holds the id of every node of the tree with its
\* assigned path and is the index the first call saw; the page just written
\* has its links resolved against the whole tree, exported or not.
C2_IndexTotalBeforeRewrite ==
    (pc = "export" /\ (step = "write" \/ calls.pages # <<>>)) =>
        /\ IndexTotal
        /\ calls.pages # <<>> => calls.index = page_id_to_md
        /\ (step = "idle" /\ cur > 0) =>
                fs[Node.path] = PageFile(source.pages, Node, TreeIndex)

\* C2 witness: a page has been written whose body links to a page of the
\* tree that comes later in the export
C2_Witness ==
    /\ pc = "export" /\ step = "idle" /\ cur > 0
    /\ \E j \in DOMAIN nodes, t \in DOMAIN source.pages[Node.page_id].body :
          LET u == source.pages[Node.page_id].body[t].url
          IN  /\ j > cur
              /\ PageIdItem(u) # 0
              /\ PageIdGroup(u) = nodes[j].page_id
              /\ fs[Node.path].data[2 + t] =
                    "[a](<" \o relpath(nodes[j].path, PageDir(Node)) \o ">)"

\* the requests of one kind sent for a page, in order
Requests(kind, page_id) ==
    SelectSeq(log, LAMBDA e : e.kind = kind /\ e.page_id = page_id)

\* a listing of n items in pages of `limit` took n \div limit + 1 requests at
\* the offsets 0, limit, 2 limit, ..., every page full but the last
PagedExactly(reqs, n, limit) ==
    /\ Len(reqs) = (n \div limit) + 1
    /\ \A i \in DOMAIN reqs :
          /\ reqs[i].start = (i - 1) * limit
          /\ reqs[i].limit = limit
          /\ reqs[i].returned = (IF i < Len(reqs) THEN limit ELSE n % limit)

\* C8: when build_tree has returned, every page's child listing of n items
\* took n \div 50 + 1 requests at the offsets 0, 50, ... and the node's children
\* are the listed pages, each once, in order; when download_attachments has
\* returned for a page, its listing of n attachments took n \div 100 + 1
\* requests at the offsets 0, 100, ... and every attachment was handled once,
\* in order.
C8_PaginationExact ==
    /\ pc = "assign_paths" =>
          LET ns == TreeNodes
          IN  \A i \in DOMAIN ns :
                  LET node   == ns[i]
                      listed == source.pages[node.page_id].children
                  IN  /\ PagedExactly(Requests("children", node.page_id), Len(listed), 50)
                      /\ [c \in DOMAIN node.children |-> node.children[c].page_id] = listed
    /\ (pc = "export" /\ step = "write") =>
          LET listed == source.pages[Node.page_id].attachments
              seen   == Requests("item", Node.page_id)
          IN  /\ PagedExactly(Requests("attachments", Node.page_id), Len(listed), 100)
              /\ [a \in DOMAIN seen |-> seen[a].title] =
                    [a \in DOMAIN listed |-> listed[a].title]

\* C8 witness: a child listing of one full page and a short page, two requests
C8_Witness ==
    /\ pc = "assign_paths"
    /\ Len(root.children) = 51
    /\ Len(Requests("children", root.page_id)) = 2

Spec == Init /\ [][Next]_vars

\* the first phase of main(): the tree, the paths, the list, the index
NextPaths ==
    \/ BuildTree
    \/ AssignPaths
    \/ CollectNodes
    \/ MakeIndex

SpecPaths == InitPaths /\ [][NextPaths]_vars

\* main() against the servers with long listings
SpecPaging == InitPaging /\ [][Next]_vars

(***************************************************************************)
(* The link rewriters on their own: rewrite_links of export_confluence.py  *)
(* (mode "api") and of export_html_to_md.py (mode "html") applied to a     *)
(* document of up to MaxTags tags.                                         *)
(***************************************************************************)
PageIdQuery(id) == << <<"pageId", id>> >>

Urls ==
    { ViewPage(<<"2">>, <<>>),
      ViewPage(<<"2">>, <<"sec">>),
      ViewPage(<<"9", "9", "9">>, <<>>),
      Url("", "", FALSE, <<"viewpage.action">>, PageIdQuery(<<"9", "9", "9">>), <<>>),
      Url("", "", FALSE, <<"viewpage.action">>, PageIdQuery(<<"2", "x">>), <<>>),
      Url("", "", FALSE, <<"viewpage.action">>,
          << <<"title", <<"x">> >>, <<"pageId", <<"2">> >> >>, <<"sec">>),
      Url("https", "wiki.example", TRUE, <<"pages", "viewpage.action">>,
          PageIdQuery(<<"2">>), <<>>),
      Url("", "wiki.example", TRUE, <<"pages", "viewpage.action">>,
          PageIdQuery(<<"2">>), <<>>),
      Url("https", "example.com", TRUE, <<"x">>, <<>>, <<>>),
      Url("http", "example.com", TRUE, <<"x">>, <<>>, <<"top">>),
      Url("mailto", "", FALSE, <<"a@b.c">>, <<>>, <<>>),
      Url("", "", FALSE, <<>>, <<>>, <<"top">>),
      Url("", "", TRUE, <<"download", "attachments", "1", "f.png">>, <<>>, <<>>),
      Url("https", "wiki.example", TRUE, <<"download", "attachments", "1", "f.png">>,
          << <<"version", <<"1">> >> >>, <<>>),
      Url("", "", FALSE, <<"x", "b.html">>, <<>>, <<"sec">>),
      Url("", "", FALSE, <<"..", "a.html">>, <<>>, <<>>),
      Url("", "", FALSE, <<"img.png">>, <<>>, <<>>),
      Url("", "", FALSE, <<>>, <<>>, <<>>) }

ImageUrls ==
    { Url("", "", TRUE, <<"download", "attachments", "1", "f.png">>, <<>>, <<>>),
      Url("https", "example.com", TRUE, <<"x">>, <<>>, <<>>),
      Url("", "", FALSE, <<"viewpage.action">>, PageIdQuery(<<"9", "9", "9">>), <<>>),
      Url("", "", FALSE, <<"img.png">>, <<>>, <<>>) }

Tags == {Tag("a", u) : u \in Urls} \cup {Tag("img", u) : u \in ImageUrls}

Documents == UNION {[1..n -> Tags] : n \in 1..MaxTags}

\* the arguments of export_confluence.rewrite_links besides the document
ApiContext(current_md_path, index, attachment_dir) ==
    [mode |-> "api", current_md |-> current_md_path, index |-> index,
     attachment_dir |-> attachment_dir]

\* page A at root/a__1/index.md, page B at root/x/b__2/index.md
TwoPages ==
    ApiContext(<<"root", "a__1", "index.md">>,
               ("1" :> <<"root", "a__1", "index.md">>)
                   @@ ("2" :> <<"root", "x", "b__2", "index.md">>),
               <<"root", "a__1", "attachments">>)

\* the contexts export_page calls rewrite_links in, for the pages of a tree
TreeContexts(src) ==
    LET ns == collect_nodes(assign_paths(build_tree(src.pages, src.page_id).node,
                                         OutDir, IndexName))
    IN  {ApiContext(ns[i].path, BuildIndex(ns), AttachmentDir(ns[i])) : i \in DOMAIN ns}

ApiContexts == {TwoPages} \cup TreeContexts(SmallServer(3, <<0, 1, 2>>, 1))

\* the files of an HTML export
InputFile(dir, stem, suffix, page_id) ==
    [dir |-> dir, stem |-> stem, suffix |-> suffix, page_id |-> page_id]

InputFiles ==
    { InputFile(<<>>, "a", ".html", "1"), InputFile(<<"x">>, "b", ".html", "2"),
      InputFile(<<>>, "c", ".htm", ""), InputFile(<<>>, "img", ".png", "") }

InputDir == <<"export", "in">>

\* the arguments of export_html_to_md.rewrite_links in convert_html_file,
\* for the file f and the maps main() builds
HtmlContext(f, output_dir) ==
    LET html_map == build_html_map(InputFiles, output_dir)
    IN  [mode |-> "html", current_md |-> html_map[Join(RelOf(f), "/")],
         index |-> build_page_id_map(InputFiles, html_map),
         html_map |-> html_map, current_html |-> InputDir \o RelOf(f),
         input_dir |-> InputDir]

HtmlContexts ==
    {HtmlContext(f, out) :
        f \in {g \in InputFiles : g.suffix \in {".html", ".htm"} /\ g.page_id # ""},
        out \in {<<"export", "out">>, InputDir}}

\* a call of rewrite_links that has not run yet
Call(context, html) == [context |-> context, html |-> html, done |-> FALSE, out |-> <<>>]

InitRewrite ==
    /\ \E context \in ApiContexts \cup HtmlContexts, html \in Documents :
          rw = Call(context, html)
    /\ source = [page_id |-> "", pages |-> <<>>]
    /\ pc = "rewrite_links"
    /\ root = NoNode
    /\ nodes = <<>>
    /\ page_id_to_md = <<>>
    /\ cur = 0
    /\ step = "idle"
    /\ start = 0
    /\ results = NoResults
    /\ written = 0
    /\ fs = <<>>
    /\ log = <<>>
    /\ calls = NoCalls
    /\ runs = 1
    /\ order = <<>>

\* export_confluence.rewrite_links(html, current_md_path, page_id_to_md, attachment_dir)
RewriteApi ==
    /\ pc = "rewrite_links" /\ ~rw.done /\ rw.context.mode = "api"
    /\ rw' = [rw EXCEPT !.done = TRUE,
                        !.out = ApiRewriteLinks(rw.html, rw.context.current_md,
                                                rw.context.index,
                                                rw.context.attachment_dir)]
    /\ UNCHANGED <<source, pc, root, nodes, page_id_to_md, cur, step, start, results,
                   written, fs, log, calls, runs, order>>

\* export_html_to_md.rewrite_links(html, html_map, page_id_map, current_html,
\*                                 current_md, input_dir)
RewriteHtml ==
    /\ pc = "rewrite_links" /\ ~rw.done /\ rw.context.mode = "html"
    /\ rw' = [rw EXCEPT !.done = TRUE,
                        !.out = HtmlRewriteLinks(rw.html, rw.context.html_map,
                                                 rw.context.index,
                                                 rw.context.current_html,
                                                 rw.context.current_md,
                                                 rw.context.input_dir)]
    /\ UNCHANGED <<source, pc, root, nodes, page_id_to_md, cur, step, start, results,
                   written, fs, log, calls, runs, order>>

NextRewrite ==
    \/ RewriteApi
    \/ RewriteHtml

SpecRewrite == InitRewrite /\ [][NextRewrite]_vars

\* the page id a URL refers to by a pageId query item of digits ("" when it
\* has none): both rewriters read the same id from such a URL
PageRef(u) ==
    IF PageIdItem(u) # 0 /\ PageIdGroup(u) = QueryPageId(u) THEN PageIdGroup(u) ELSE ""

\* the relative path from the directory of the current output file to the
\* file the index gives for id
RelativeTo(id) == relpath(rw.context.index[id], Parent(rw.context.current_md))

\* the tags of the rewritten document whose URL satisfies P
Rewritten(P(_)) == {i \in DOMAIN rw.html : rw.done /\ P(rw.html[i].url)}

\* the call of the page at root/a__1/index.md with page 2 at root/x/b__2/index.md
FromAToB(u) ==
    /\ rw.context.mode = "api"
    /\ rw.context.current_md = <<"root", "a__1", "index.md">>
    /\ PageRef(u) \in DOMAIN rw.context.index
    /\ rw.context.index[PageRef(u)] = <<"root", "x", "b__2", "index.md">>
    /\ u.frag = <<>>

\* C3 as stated: the link from root/a__1/index.md to the page at
\* root/x/b__2/index.md is rewritten to "x/b__2/index.md".
C3_AsStated == \A i \in Rewritten(FromAToB) : rw.out[i].attr = "x/b__2/index.md"

\* C3, amended: the link from root/a__1/index.md to the page at
\* root/x/b__2/index.md is rewritten to "../x/b__2/index.md", the path from
\* the directory root/a__1 of the current file.
C3_RelativeToPageDirectory ==
    \A i \in Rewritten(FromAToB) : rw.out[i].attr = "../x/b__2/index.md"

\* C3 witness: such a link has been rewritten
C3_Witness == \E i \in Rewritten(FromAToB) : rw.out[i].attr # Text(rw.html[i].url)

\* a link to a page of the index that ends with a fragment
ResolvableWithFragment(u) == PageRef(u) \in DOMAIN rw.context.index /\ u.frag # <<>>

\* C4: a hyperlink to a page of the index that ends with "#anchor" is
\* rewritten, by either rewriter, to the relative path of the page followed by
\* the same "#anchor".
C4_FragmentPreserved ==
    \A i \in Rewritten(ResolvableWithFragment) :
        rw.html[i].name = "a" =>
            rw.out[i].attr = RelativeTo(PageRef(rw.html[i].url)) \o FragText(rw.html[i].url)

\* a reference to a page id that the index does not have
Unresolvable(u) == PageRef(u) # "" /\ PageRef(u) \notin DOMAIN rw.context.index

\* C5: a hyperlink or image with a page id that is not in the index keeps its
\* attribute, under either rewriter.
C5_UnresolvableUnchanged ==
    \A i \in Rewritten(Unresolvable) : rw.out[i].attr = Text(rw.html[i].url)

\* an absolute URL (scheme and host) with a page id of the index
AbsoluteAndResolvable(u) ==
    /\ u.scheme \in {"http", "https"} /\ u.netloc # ""
    /\ PageRef(u) \in DOMAIN rw.context.index

\* C6: an absolute URL that carries a page id of the index is rewritten, by
\* either rewriter, to the relative path of that page (with or without its
\* fragment) and not left as it was.
C6_InternalBeforeExternal ==
    \A i \in Rewritten(AbsoluteAndResolvable) :
        rw.out[i].attr \in
            { RelativeTo(PageRef(rw.html[i].url)),
              RelativeTo(PageRef(rw.html[i].url)) \o FragText(rw.html[i].url) }

\* an external reference: http or https with a host, mailto:, or a bare
\* fragment, with no pageId item and no attachment download path
External(u) ==
    /\ \/ u.scheme \in {"http", "https"} /\ u.netloc # ""
       \/ u.scheme = "mailto"
       \/ /\ u.scheme = "" /\ u.netloc = "" /\ u.path = <<>> /\ ~u.rooted
          /\ u.query = <<>> /\ u.frag # <<>>
    /\ PageIdItem(u) = 0 /\ QueryPageId(u) = ""
    /\ AttachItem(u) = 0

\* C7: an external reference that matches neither the page pattern nor the
\* attachment pattern keeps its attribute, under either rewriter.
C7_ExternalUnchanged ==
    \A i \in Rewritten(External) : rw.out[i].attr = Text(rw.html[i].url)

\* C7 witness: the HTML-export rewriter has passed a document with a bare
\* fragment and an https link, the API rewriter one with a mailto: link
C7_Witness ==
    \/ /\ rw.context.mode = "html"
       /\ \E i, j \in Rewritten(External) :
             /\ rw.html[i].url.scheme = "" /\ rw.html[j].url.scheme = "https"
             /\ rw.out[i].attr = "#top"
             /\ rw.out[j].attr = "https://example.com/x"
    \/ /\ rw.context.mode = "api"
       /\ \E i \in Rewritten(External) :
             rw.html[i].url.scheme = "mailto" /\ rw.out[i].attr = "mailto:a@b.c"

(***************************************************************************)
(* export_page applied to the nodes in any order.                          *)
(***************************************************************************)
\* export_page(...) for a node that has not been exported yet, whichever
AnyNode ==
    /\ pc = "export" /\ step = "idle"
    /\ \E i \in DOMAIN nodes \ SeqToSet(order) :
          /\ cur' = i
          /\ order' = Append(order, i)
    /\ step' = "get_page"
    /\ UNCHANGED <<source, pc, root, nodes, page_id_to_md, start, results, written,
                   fs, log, calls, runs, rw>>

\* every node has been exported
AllExported ==
    /\ pc = "export" /\ step = "idle"
    /\ SeqToSet(order) = DOMAIN nodes
    /\ pc' = "done"
    /\ UNCHANGED <<source, root, nodes, page_id_to_md, cur, step, start, results,
                   written, fs, log, calls, runs, order, rw>>

NextOrder ==
    \/ BuildTree
    \/ AssignPaths
    \/ CollectNodes
    \/ MakeIndex
    \/ AnyNode
    \/ AllExported
    \/ ExportPage

SpecOrder == Init /\ [][NextOrder]_vars

\* the file at p belongs to the node: its content file, its child listing or
\* a file of its attachment directory
Owns(node, p) ==
    \/ p = node.path
    \/ p = Append(PageDir(node), "children.md")
    \/ Parent(p) = AttachmentDir(node)

\* C10: whatever the order in which export_page is applied to the nodes, every
\* file of the output directory belongs to a node whose export has begun, and
\* when all nodes are exported the output directory is that of the export in
\* list order.
C10_OrderIndependent ==
    /\ pc = "export" =>
          \A p \in DOMAIN fs :
              fs[p].kind = "file" => \E i \in SeqToSet(order) : Owns(nodes[i], p)
    /\ pc = "done" => fs = CleanRun(source)

\* C10 witness: three pages with attachments exported last node first
C10_Witness ==
    /\ pc = "done"
    /\ Len(nodes) = 3
    /\ order = <<3, 2, 1>>
    /\ \A i \in DOMAIN nodes :
          LET atts == source.pages[nodes[i].page_id].attachments
          IN  atts # <<>> /\ Target(nodes[i], atts[1]) \in DOMAIN fs

(***************************************************************************)
(* A run that fails, and the run after it.                                 *)
(***************************************************************************)
\* a request raises (get_page_by_id, a listing, session.get or
\* raise_for_status): the exception ends main()
FailRequest ==
    /\ \/ pc = "build_tree"
       \/ /\ pc = "export"
          /\ \/ step \in {"get_page", "list"}
             \/ /\ step = "item"
                /\ results.i <= Len(results.page)
                /\ Att.download # <<>> /\ Target(Node, Att) \notin DOMAIN fs
    /\ pc' = "aborted"
    /\ UNCHANGED <<source, root, nodes, page_id_to_md, cur, step, start, results,
                   written, fs, log, calls, runs, order, rw>>

\* iter_content raises before the last chunk has come: the with statement
\* closes the file with what has been written, the exception ends main()
FailStream ==
    /\ pc = "export" /\ step = "stream"
    /\ written < Len(Att.chunks)
    /\ pc' = "aborted"
    /\ UNCHANGED <<source, root, nodes, page_id_to_md, cur, step, start, results,
                   written, fs, log, calls, runs, order, rw>>

\* the export is run again on the same server and output directory
Rerun ==
    /\ pc = "aborted"
    /\ runs < MaxRuns
    /\ pc' = "build_tree"
    /\ root' = NoNode
    /\ nodes' = <<>>
    /\ page_id_to_md' = <<>>
    /\ cur' = 0
    /\ step' = "idle"
    /\ start' = 0
    /\ results' = NoResults
    /\ written' = 0
    /\ log' = <<>>
    /\ calls' = NoCalls
    /\ runs' = runs + 1
    /\ order' = <<>>
    /\ UNCHANGED <<source, fs, rw>>

NextFaulty ==
    \/ Next
    \/ FailRequest
    \/ FailStream
    \/ Rerun

SpecFaulty == Init /\ [][NextFaulty]_vars

\* C9: when a run of the export has completed, after whatever failed runs,
\* the output directory is that of one run in which nothing fails; every
\* attachment file holds the complete content.
C9_RerunCompletesExport == pc = "done" => fs = CleanRun(source)

====
